---- MODULE Spec2Model ----
(***************************************************************************)
(* DEDSTA: the adaptive reservoir (src/dedsta/structure.py), the KPSS      *)
(* nonstationarity estimator (src/dedsta/nonstationarity.py) and the       *)
(* orchestrator (src/dedsta/algorithm.py), as state machines.              *)
(*                                                                         *)
(* Floats.  Weights and nonstationarity degrees are exact rationals        *)
(* [num, den] in lowest terms.  Every nonstationarity degree the model     *)
(* draws is dyadic (k/2), so it is exactly representable as a double, and  *)
(* for those inputs the double evaluation of floor(1.1 * max_size *        *)
(* (1 - nu)) followed by the clamp agrees with the exact evaluation with   *)
(* 1.1 read as 11/10.  (For degrees that are not representable the two     *)
(* can differ by one: max_size = 100, nu = 0.9 gives 10 in doubles and 11  *)
(* in exact arithmetic.)  A weight 2 * (1 - i * nu / n) is the exact       *)
(* value of the expression; the double the code stores is that value       *)
(* rounded (1.3333333333333335 for 4/3).                                   *)
(***************************************************************************)
EXTENDS Integers, Sequences, FiniteSets, TLC

VARIABLES
    min_size,       \* DEDSTAReservoir.min_size            (structure.py)
    max_size,       \* DEDSTAReservoir.max_size            (structure.py)
    data_points,    \* DEDSTAReservoir.data_points         (structure.py)
    window_size,    \* KPSSNonstationarityDegreeEstimator._window_size
    data,           \* KPSSNonstationarityDegreeEstimator._data: its rows,
                    \* oldest first
    ndim,           \* _data.ndim: 1 for array([]), 2 once rows were stacked
    fed,            \* the values update was given since construction, in
                    \* order, kept while no update raised
    alg_max_size,   \* DEDSTAReservoir.max_size            (algorithm.py)
    alg_data_points,\* DEDSTAReservoir.data_points         (algorithm.py)
    fitted,         \* what DEDSTA.evaluate last handed to FFTKDE.fit
    added,          \* the values add was given since construction, in order,
                    \* kept while remove() ran only from inside add
    last            \* the last call: its name, argument, outcome, size before

vars == <<min_size, max_size, data_points, window_size, data, ndim, fed,
          alg_max_size, alg_data_points, fitted, added, last>>

reservoirVars == <<min_size, max_size, data_points>>
estimatorVars == <<window_size, data, ndim, fed>>
algVars == <<alg_max_size, alg_data_points, fitted>>

----------------------------------------------------------------------------
(* Bounds and input sets *)

MaxSize == 3        \* largest max_size a reservoir is configured with
MaxWindow == 2      \* largest window_size an estimator is configured with
MaxRows == 3        \* rows a window_size = 0 estimator is followed up to

\* Observations: two one-dimensional vectors and one two-dimensional one.
DataValues == {<<1>>, <<2>>, <<1, 2>>}

\* Rationals num/den, den > 0.
Rat(n, d) == [num |-> n, den |-> d]

\* Nonstationarity degrees in [0, 1].
NuValues == {Rat(0, 1), Rat(1, 2), Rat(1, 1)}
\* Degrees a caller can pass although they are outside [0, 1].
NuOutside == {Rat(-1, 2), Rat(3, 2)}

----------------------------------------------------------------------------
(* Arithmetic *)

Abs(x) == IF x < 0 THEN -x ELSE x

RECURSIVE Gcd(_, _)
Gcd(a, b) == IF b = 0 THEN a ELSE Gcd(b, a % b)

\* n/d in lowest terms, d > 0.
Norm(n, d) == LET g == Gcd(Abs(n), d) IN Rat(n \div g, d \div g)

\* math.floor of n/d, d > 0.
Floor(n, d) == IF n >= 0 THEN n \div d ELSE -((-n + d - 1) \div d)

One == Rat(1, 1)

----------------------------------------------------------------------------
(* structure.py: DEDSTADataPoint, DEDSTAReservoir, DEDSTASlidingWindowReservoir *)

\* DEDSTADataPoint.__init__: the value, and weight 1.0.
DEDSTADataPoint(value) == [value |-> value, weight |-> One]

\* DEDSTAReservoir.size
size == Len(data_points)

\* DEDSTAReservoir.get_points
get_points == [i \in 1..Len(data_points) |-> data_points[i].value]

\* DEDSTAReservoir.get_weights
get_weights == [i \in 1..Len(data_points) |-> data_points[i].weight]

\* Mutant: pop(0), the newest element goes instead of the oldest.
PopLast_First(s) == SubSeq(s, 2, Len(s))

\* list.pop(-1): the list without its last element (the list is not empty).
PopLast(s) == SubSeq(s, 1, Len(s) - 1)

\* Mutant: append(x) instead of insert(0, x).
InsertFirst_Append(s, x) == s \o <<x>>

\* list.insert(0, x)
InsertFirst(s, x) == <<x>> \o s

\* The record of a call: op, the nonstationarity passed (One when none is),
\* whether the call raised, the size of the receiver before the call and
\* whether the call changed the receiver's list.
Call(op, nu, raised, pre, changed) ==
    [op |-> op, nu |-> nu, raised |-> raised, pre_size |-> pre,
     changed |-> changed]

\* The log of add's arguments; it is followed for max_size + 1 values.
Tracked(s) == [tracked |-> TRUE, values |-> s]
Untracked == [tracked |-> FALSE, values |-> <<>>]

\* Mutant: pop(-1) on an empty list passes silently.
RemoveRaises_Never(dp) == FALSE

\* pop(-1) raises IndexError exactly on an empty list.
RemoveRaises(dp) == dp = <<>>

\* DEDSTASlidingWindowReservoir.remove: pop(-1) raises IndexError on an
\* empty list and changes nothing.
remove ==
    /\ IF RemoveRaises(data_points)
         THEN /\ data_points' = data_points
              /\ last' = Call("remove", One, TRUE, size, FALSE)
         ELSE /\ data_points' = PopLast(data_points)
              /\ last' = Call("remove", One, FALSE, size, TRUE)
    /\ added' = Untracked
    /\ UNCHANGED <<min_size, max_size, estimatorVars, algVars>>

\* Mutant: size() > max_size instead of size() >= max_size.
AddTo_OffByOne(dp, mx, v) ==
    <<[value |-> v, weight |-> One]>> \o
        (IF Len(dp) > mx THEN SubSeq(dp, 1, Len(dp) - 1) ELSE dp)

\* DEDSTAReservoir.add on the list dp when remove() does not raise:
\* remove() when size() >= max_size, then insert(0, DEDSTADataPoint(v)).
AddTo(dp, mx, v) ==
    InsertFirst(IF Len(dp) >= mx THEN PopLast(dp) ELSE dp, DEDSTADataPoint(v))

\* DEDSTAReservoir.add.  When remove() raises (size() >= max_size on an
\* empty list, that is max_size <= 0) the exception leaves add before the
\* insert.
add(data_point) ==
    /\ IF size >= max_size /\ RemoveRaises(data_points)
         THEN /\ data_points' = data_points
              /\ added' = added
              /\ last' = Call("add", One, TRUE, size, FALSE)
         ELSE /\ data_points' = AddTo(data_points, max_size, data_point)
              /\ added' = IF added.tracked /\ Len(added.values) <= max_size
                            THEN Tracked(Append(added.values, data_point))
                            ELSE Untracked
              /\ last' = Call("add", One, FALSE, size, TRUE)
    /\ UNCHANGED <<min_size, max_size, estimatorVars, algVars>>

\* Mutant: the loop starts at the second point.
ResetWeights_SkipFirst(dp) ==
    [i \in 1..Len(dp) |-> IF i = 1 THEN dp[i] ELSE [dp[i] EXCEPT !.weight = One]]

\* DEDSTAReservoir.reset_weights on the list dp: every weight becomes 1.0.
ResetWeights(dp) == [i \in 1..Len(dp) |-> [dp[i] EXCEPT !.weight = One]]

reset_weights ==
    /\ data_points' = ResetWeights(data_points)
    /\ last' = Call("reset_weights", One, FALSE, size,
                     ResetWeights(data_points) # data_points)
    /\ UNCHANGED <<min_size, max_size, added, estimatorVars, algVars>>

----------------------------------------------------------------------------
(* structure.py: DEDSTAAgingModule, DEDSTAReductionModule *)

\* Mutant: i * nonstationarity is not divided by n_elements.
AgingWeight_NoDivision(i, nu, n_elements) ==
    Norm(2 * (nu.den - i * nu.num), nu.den)

\* Mutant: positions counted from 1.
AgingWeight_OneBased(i, nu, n_elements) ==
    Norm(2 * (n_elements * nu.den - (i + 1) * nu.num), n_elements * nu.den)

\* 2 * (1 - i * nonstationarity / n_elements), i counted from 0.
AgingWeight(i, nu, n_elements) ==
    Norm(2 * (n_elements * nu.den - i * nu.num), n_elements * nu.den)

\* DEDSTAAgingModule.apply on the list dp: range(0) runs no iteration.
AgingApply(dp, nu) ==
    [j \in 1..Len(dp) |->
        [dp[j] EXCEPT !.weight = AgingWeight(j - 1, nu, Len(dp))]]

Aging_apply(nu) ==
    /\ data_points' = AgingApply(data_points, nu)
    /\ last' = Call("Aging.apply", nu, FALSE, size,
                     AgingApply(data_points, nu) # data_points)
    /\ UNCHANGED <<min_size, max_size, added, estimatorVars, algVars>>

\* Mutant: nonstationarity instead of 1 - nonstationarity.
ReductionRaw_NoComplement(mx, nu) == Floor(11 * mx * nu.num, 10 * nu.den)

\* m = floor(1.1 * max_size * (1 - nonstationarity))
ReductionRaw(mx, nu) == Floor(11 * mx * (nu.den - nu.num), 10 * nu.den)

\* Mutant: the m < min_size test is missing.
ReductionTarget_NoMin(mn, mx, nu) ==
    LET m0 == Floor(11 * mx * (nu.den - nu.num), 10 * nu.den)
    IN  IF m0 > mx THEN mx ELSE m0

\* The two ifs after it: m < min_size first, then m > max_size.
ReductionTarget(mn, mx, nu) ==
    LET m0 == ReductionRaw(mx, nu)
        m1 == IF m0 < mn THEN mn ELSE m0
    IN  IF m1 > mx THEN mx ELSE m1

\* while size() > m: remove().  remove() on an empty list raises and ends
\* the loop with the list as it is.
RECURSIVE ReduceTo(_, _)
ReduceTo(dp, m) ==
    IF Len(dp) > m
      THEN IF dp = <<>> THEN [points |-> dp, raised |-> TRUE]
                        ELSE ReduceTo(PopLast(dp), m)
      ELSE [points |-> dp, raised |-> FALSE]

Reduction_apply(nu) ==
    LET r == ReduceTo(data_points, ReductionTarget(min_size, max_size, nu)) IN
    /\ data_points' = r.points
    /\ last' = Call("Reduction.apply", nu, r.raised, size,
                     r.points # data_points)
    /\ added' = IF r.points = data_points THEN added ELSE Untracked
    /\ UNCHANGED <<min_size, max_size, estimatorVars, algVars>>

----------------------------------------------------------------------------
(* nonstationarity.py: KPSSNonstationarityDegreeEstimator *)

\* Mutant: delete(self._data, -1, 0), the newest row goes.
DeleteFirstRow_Last(d) == SubSeq(d, 1, Len(d) - 1)

\* delete(self._data, 0, 0): the array without its first row.
DeleteFirstRow(d) == Tail(d)

\* vstack((d, data_point)) raises ValueError unless data_point has as many
\* entries as the rows of d have columns; cols is that number, which the
\* array keeps when it has no row left.
VStackRaises(cols, data_point) == Len(data_point) # cols

\* KPSSNonstationarityDegreeEstimator.update.  The first branch takes any
\* data_point; the eviction is assigned to self._data before vstack is
\* tried, so a vstack that raises leaves the window without its first row.
KPSS_update(data_point) ==
    /\ Len(data) < MaxRows \/ Len(data) = window_size
    /\ IF Len(data) = 0
         THEN /\ data' = <<data_point>>
              /\ fed' = IF fed.tracked /\ fed.values = <<>>
                          THEN Tracked(<<data_point>>) ELSE Untracked
              /\ last' = Call("KPSS.update", One, FALSE, 0, TRUE)
         ELSE LET cols == Len(data[1])
                  kept == IF Len(data) = window_size
                            THEN DeleteFirstRow(data) ELSE data
              IN  IF VStackRaises(cols, data_point)
                    THEN /\ data' = kept
                         /\ fed' = Untracked
                         /\ last' = Call("KPSS.update", One, TRUE, Len(data),
                                          kept # data)
                    ELSE /\ data' = Append(kept, data_point)
                         /\ fed' = IF fed.tracked
                                        /\ Len(fed.values) <= window_size + 1
                                     THEN Tracked(Append(fed.values, data_point))
                                     ELSE Untracked
                         /\ last' = Call("KPSS.update", One, FALSE, Len(data),
                                          TRUE)
    /\ ndim' = 2
    /\ UNCHANGED <<window_size, reservoirVars, added, algVars>>

\* Mutant: shape[1] is taken to exist on every array.
ShapeRaises_Never(nd) == FALSE

\* self._data.shape[1] raises IndexError when the array has one axis only.
ShapeRaises(nd) == nd < 2

\* KPSSNonstationarityDegreeEstimator.evaluate.  _data.shape[1] raises
\* IndexError on array([]); otherwise kpss (statsmodels) is called on every
\* column and either raises or gives a statistic, whose sigmoid is some
\* degree in [0, 1].  The window is only read.
KPSS_evaluate ==
    /\ IF ShapeRaises(ndim)
         THEN last' = Call("KPSS.evaluate", One, TRUE, Len(data), FALSE)
         ELSE \/ last' = Call("KPSS.evaluate", One, TRUE, Len(data), FALSE)
              \/ \E nu \in NuValues :
                    last' = Call("KPSS.evaluate", nu, FALSE, Len(data), FALSE)
    /\ UNCHANGED <<estimatorVars, reservoirVars, added, algVars>>

----------------------------------------------------------------------------
(* algorithm.py: DEDSTADataPoint, DEDSTASlidingWindowReservoir, DEDSTA *)

\* DEDSTADataPoint.__init__ (algorithm.py)
AlgDataPoint(value) == [value |-> value, weight |-> One]

\* Mutant: the points of the previous fit are kept once there is one.
alg_get_points_Stale ==
    IF fitted = <<>>
      THEN [i \in 1..Len(alg_data_points) |-> alg_data_points[i].value]
      ELSE fitted[1].points

\* DEDSTAReservoir.get_points / get_weights (algorithm.py)
alg_get_points == [i \in 1..Len(alg_data_points) |-> alg_data_points[i].value]
alg_get_weights == [i \in 1..Len(alg_data_points) |-> alg_data_points[i].weight]

\* Mutant: pop() instead of pop(0), the newest point goes.
AlgAddTo_PopLast(dp, mx, v) ==
    Append(IF Len(dp) >= mx THEN SubSeq(dp, 1, Len(dp) - 1) ELSE dp,
           [value |-> v, weight |-> One])

\* DEDSTASlidingWindowReservoir.add (algorithm.py) on the list dp when
\* pop(0) does not raise: pop(0) when size() >= max_size, then append.
AlgAddTo(dp, mx, v) ==
    Append(IF Len(dp) >= mx THEN Tail(dp) ELSE dp, AlgDataPoint(v))

\* DEDSTA.update: self.reservoir.add(data_point) and nothing else.  pop(0)
\* raises IndexError on an empty list (max_size <= 0).
DEDSTA_update(data_point) ==
    /\ IF Len(alg_data_points) >= alg_max_size /\ alg_data_points = <<>>
         THEN /\ alg_data_points' = alg_data_points
              /\ last' = Call("DEDSTA.update", One, TRUE, 0, FALSE)
         ELSE /\ alg_data_points' =
                    AlgAddTo(alg_data_points, alg_max_size, data_point)
              /\ last' = Call("DEDSTA.update", One, FALSE,
                               Len(alg_data_points), TRUE)
    /\ UNCHANGED <<alg_max_size, fitted, reservoirVars, added, estimatorVars>>

\* One value given to add of both sliding-window reservoirs: structure.py's
\* (above) and algorithm.py's, whose pop(0) raises IndexError on an empty
\* list and leaves add before the append.
add_both(data_point) ==
    /\ IF size >= max_size /\ RemoveRaises(data_points)
         THEN /\ data_points' = data_points
              /\ added' = added
              /\ last' = Call("add", One, TRUE, size, FALSE)
         ELSE /\ data_points' = AddTo(data_points, max_size, data_point)
              /\ added' = IF added.tracked /\ Len(added.values) <= max_size
                            THEN Tracked(Append(added.values, data_point))
                            ELSE Untracked
              /\ last' = Call("add", One, FALSE, size, TRUE)
    /\ alg_data_points' =
          IF Len(alg_data_points) >= alg_max_size /\ alg_data_points = <<>>
            THEN alg_data_points
            ELSE AlgAddTo(alg_data_points, alg_max_size, data_point)
    /\ UNCHANGED <<min_size, max_size, alg_max_size, fitted, estimatorVars>>

\* DEDSTA.evaluate: FFTKDE(bw=1, kernel).fit(get_points(), get_weights()),
\* then kde.evaluate(grid_points); KDEpy either raises or answers.
DEDSTA_evaluate ==
    /\ fitted' = <<[points |-> alg_get_points, weights |-> alg_get_weights]>>
    /\ \E r \in BOOLEAN :
          last' = Call("DEDSTA.evaluate", One, r, Len(alg_data_points), FALSE)
    /\ UNCHANGED <<alg_max_size, alg_data_points, reservoirVars, added,
                   estimatorVars>>

----------------------------------------------------------------------------
(* Construction *)

\* DEDSTASlidingWindowReservoir(min_size, max_size), structure.py
ReservoirInit(mn, mx) ==
    /\ min_size = mn
    /\ max_size = mx
    /\ data_points = <<>>
    /\ added = Tracked(<<>>)

\* KPSSNonstationarityDegreeEstimator(window_size): _data = array([])
EstimatorInit(w) ==
    /\ window_size = w
    /\ data = <<>>
    /\ ndim = 1
    /\ fed = Tracked(<<>>)

\* DEDSTA(DEDSTASlidingWindowReservoir(min_size, max_size)), algorithm.py
AlgInit(mx) ==
    /\ alg_max_size = mx
    /\ alg_data_points = <<>>
    /\ fitted = <<>>

NoCall == Call("none", One, FALSE, 0, FALSE)

\* The reservoir and its modules, for every configuration
\* 0 <= min_size <= max_size <= MaxSize.
Init ==
    /\ \E mx \in 0..MaxSize : \E mn \in 0..mx : ReservoirInit(mn, mx)
    /\ EstimatorInit(MaxWindow)
    /\ AlgInit(MaxSize)
    /\ last = NoCall

Next ==
    \/ \E v \in DataValues : add(v)
    \/ remove
    \/ reset_weights
    \/ \E nu \in NuValues : Aging_apply(nu)
    \/ \E nu \in NuValues \cup NuOutside : Reduction_apply(nu)

Spec == Init /\ [][Next]_vars

\* The estimator alone, for every window_size in 0..MaxWindow.
InitKPSS ==
    /\ ReservoirInit(0, MaxSize)
    /\ \E w \in 0..MaxWindow : EstimatorInit(w)
    /\ AlgInit(MaxSize)
    /\ last = NoCall

NextKPSS ==
    \/ \E v \in DataValues : KPSS_update(v)
    \/ KPSS_evaluate

SpecKPSS == InitKPSS /\ [][NextKPSS]_vars

\* The orchestrator of algorithm.py, for every max_size in 0..MaxSize, next
\* to an estimator it holds no reference to.
InitDEDSTA ==
    /\ ReservoirInit(0, MaxSize)
    /\ EstimatorInit(MaxWindow)
    /\ \E mx \in 0..MaxSize : AlgInit(mx)
    /\ last = NoCall

NextDEDSTA ==
    \/ \E v \in DataValues : DEDSTA_update(v)
    \/ DEDSTA_evaluate

SpecDEDSTA == InitDEDSTA /\ [][NextDEDSTA]_vars

\* The two sliding-window reservoirs, built with the same max_size in
\* 0..MaxSize and given the same values.
InitBoth ==
    /\ \E mx \in 0..MaxSize : ReservoirInit(0, mx) /\ AlgInit(mx)
    /\ EstimatorInit(MaxWindow)
    /\ last = NoCall

NextBoth == \E v \in DataValues : add_both(v)

SpecBoth == InitBoth /\ [][NextBoth]_vars

----------------------------------------------------------------------------
(* Properties of the reservoir and its modules *)

Reverse(s) == [i \in 1..Len(s) |-> s[Len(s) + 1 - i]]
Min(a, b) == IF a < b THEN a ELSE b
Clamp(x, lo, hi) == IF x < lo THEN lo ELSE IF x > hi THEN hi ELSE x
RatEq(w, n, d) == w.num * d = n * w.den

\* C1: whatever the configuration 0 <= min_size <= max_size and whatever
\* calls were made (add, remove, reset_weights, the two modules' apply),
\* size() <= max_size.
C1_BoundedSize == size <= max_size

\* C1 witness: add has run on a full reservoir of at least two points.
C1_Witness ==
    /\ last.op = "add" /\ ~last.raised
    /\ last.pre_size = max_size /\ max_size >= 2 /\ size = max_size

\* C2: after adding v1..vk, k <= max_size, to an empty reservoir,
\* get_points() is [vk, ..., v1].
C2_NewestFirst ==
    added.tracked /\ Len(added.values) <= max_size
        => get_points = Reverse(added.values)

\* C2 witness: three values were added, the first two different.
C2_Witness ==
    /\ added.tracked /\ Len(added.values) = 3 /\ max_size >= 3
    /\ added.values[1] # added.values[2]
    /\ last.op = "add"

\* C3: an add on a full reservoir (max_size >= 1) evicts exactly one sample,
\* the oldest, and after max_size + 1 adds to an empty reservoir
\* get_points() is the last max_size values added, newest first.
C3_EvictsOldest ==
    /\ [](added.tracked /\ Len(added.values) = max_size + 1 /\ max_size >= 1
            => get_points =
                 Reverse(SubSeq(added.values, 2, max_size + 1)))
    /\ [][last'.op = "add" /\ size = max_size /\ max_size >= 1
            => /\ ~last'.raised
               /\ size' = max_size
               /\ SubSeq(data_points', 2, size') =
                     SubSeq(data_points, 1, size - 1)]_vars

\* C3 witness: max_size + 1 values were added, the evicted one differs from
\* the one after it.
C3_Witness ==
    /\ added.tracked /\ Len(added.values) = max_size + 1 /\ max_size >= 2
    /\ added.values[1] # added.values[2]
    /\ last.op = "add" /\ last.pre_size = max_size

\* floor(1.1 * max_size * (1 - v)) clamped to [min_size, max_size].
ClampedTarget(v) ==
    Clamp(Floor(11 * max_size * (v.den - v.num), 10 * v.den),
          min_size, max_size)

\* C4 as stated: for v in [0, 1], ReductionModule.apply(v) never increases
\* size() and the size after it is
\* clamp(floor(1.1 * max_size * (1 - v)), min_size, max_size).
C4_SizeEqualsTarget ==
    last.op = "Reduction.apply" /\ last.nu \in NuValues
        => size <= last.pre_size /\ size = ClampedTarget(last.nu)

\* C4 amended: for v in [0, 1], ReductionModule.apply(v) never increases
\* size() and the size after it is the smaller of the size before it and
\* clamp(floor(1.1 * max_size * (1 - v)), min_size, max_size).
C4_SizeIsMinOfSizeAndTarget ==
    last.op = "Reduction.apply" /\ last.nu \in NuValues
        => /\ ~last.raised
           /\ size <= last.pre_size
           /\ size = Min(last.pre_size, ClampedTarget(last.nu))

\* C4 witness: a reduction with v = 1/2 took a reservoir of three down to
\* floor(1.1 * 3 * 0.5) = 1.
C4_Witness ==
    /\ last.op = "Reduction.apply" /\ last.nu = Rat(1, 2)
    /\ max_size = 3 /\ min_size = 0 /\ last.pre_size = 3 /\ size = 1

\* C5: ReductionModule.apply, whatever the nonstationarity, never takes a
\* reservoir of size >= min_size below min_size and never calls remove()
\* on an empty reservoir.
C5_NeverBelowMin ==
    last.op = "Reduction.apply"
        => /\ ~last.raised
           /\ last.pre_size >= min_size => size >= min_size

\* C5 witness: a reduction with v = 3/2 (m* < 0) stopped at min_size.
C5_Witness ==
    /\ last.op = "Reduction.apply" /\ last.nu = Rat(3, 2)
    /\ last.pre_size > min_size /\ size = min_size /\ last.changed

\* C6: AgingModule.apply(v) on n > 0 samples sets the weight at position i
\* (0 = newest) to 2 * (1 - i * v / n), n = 4 and v = 0.5 giving
\* [2, 1.75, 1.5, 1.25]; on an empty reservoir it changes nothing and
\* raises nothing.
C6_AgingFormula ==
    last.op = "Aging.apply"
        => /\ ~last.raised
           /\ size = last.pre_size
           /\ \A i \in 0..(size - 1) :
                 RatEq(get_weights[i + 1],
                       2 * (size * last.nu.den - i * last.nu.num),
                       size * last.nu.den)
           /\ size = 4 /\ last.nu = Rat(1, 2)
                 => get_weights = <<Rat(2, 1), Rat(7, 4), Rat(3, 2), Rat(5, 4)>>
           /\ size = 2 /\ last.nu = Rat(1, 2)
                 => get_weights = <<Rat(2, 1), Rat(3, 2)>>

\* C6 witness: aging with v = 1/2 on three samples.
C6_Witness ==
    /\ last.op = "Aging.apply" /\ last.nu = Rat(1, 2) /\ size = 3
    /\ get_weights = <<Rat(2, 1), Rat(5, 3), Rat(4, 3)>>

\* C7: after reset_weights() every weight is 1.0, a second reset_weights()
\* changes nothing, and reset_weights() never changes the points, their
\* order or the size.
C7_ResetWeights ==
    /\ [](last.op = "reset_weights"
            => /\ ~last.raised
               /\ \A i \in 1..size : get_weights[i] = One)
    /\ [][last'.op = "reset_weights"
            => /\ get_points' = get_points
               /\ last.op = "reset_weights" => data_points' = data_points]_vars

\* C7 witness: reset_weights() has changed the weights of three samples.
C7_Witness ==
    last.op = "reset_weights" /\ last.changed /\ size = 3

----------------------------------------------------------------------------
(* Properties of the estimator's window and of the orchestrator *)

LastN(s, n) == SubSeq(s, Len(s) - n + 1, Len(s))
SameDimension(vs) == \A i, j \in 1..Len(vs) : Len(vs[i]) = Len(vs[j])

\* C8: with window_size >= 1 and same-dimension values the window never
\* holds more than window_size rows, keeps them oldest first, and once full
\* each update evicts exactly the oldest row and appends the new one, so the
\* window holds the last window_size values in arrival order.
C8_WindowFIFO ==
    /\ [](window_size >= 1 => Len(data) <= window_size)
    /\ [](window_size >= 1 /\ fed.tracked
            => data = LastN(fed.values, Min(Len(fed.values), window_size)))
    /\ [][/\ last'.op = "KPSS.update" /\ ~last'.raised
           /\ window_size >= 1 /\ Len(data) = window_size
            => /\ Len(data') = window_size
               /\ SubSeq(data', 1, window_size - 1) = Tail(data)]_vars

\* C8 witness: a window of two rows was fed four values, the first two
\* different, so two rows were evicted.
C8_Witness ==
    /\ window_size = 2 /\ fed.tracked /\ Len(fed.values) = 4
    /\ fed.values[1] # fed.values[2]
    /\ last.op = "KPSS.update" /\ last.pre_size = 2 /\ Len(data) = 2

\* C9 as stated: a call that raises (an observation of another
\* dimensionality) has changed neither the reservoir nor the window, and
\* the samples of the reservoir, like the rows of the window, all have one
\* dimensionality.
C9_MismatchRejected ==
    /\ last.raised => ~last.changed
    /\ SameDimension(get_points)
    /\ SameDimension(data)

\* C10 as stated: after a successful DEDSTA.update(point) the window and
\* the reservoir have both received the point: the newest rows of the
\* window are the newest points of the orchestrator's reservoir, in the
\* same order.
C10_UpdateFeedsBoth ==
    last.op = "DEDSTA.update" /\ ~last.raised
        => LET n == Min(window_size, Len(alg_data_points)) IN
           /\ Len(data) >= n
           /\ LastN(data, n) = LastN(alg_get_points, n)

\* C11 as stated: DEDSTA.evaluate first obtains v from the estimator's
\* evaluate(), then resets the weights and applies Aging, then Reduction,
\* with that v; the weights handed to the fitter are the ones this pipeline
\* leaves: those of the samples kept, position i carrying
\* 2 * (1 - i * v / n), n the size before the call.
C11_PipelineBeforeFit ==
    last.op = "DEDSTA.evaluate"
        => /\ Len(fitted) = 1
           /\ \E nu \in NuValues :
                 /\ fitted[1].weights = alg_get_weights
                 /\ Len(alg_data_points) <= last.pre_size
                 /\ \A i \in 1..Len(alg_data_points) :
                       alg_data_points[i].weight =
                           AgingWeight(i - 1, nu, last.pre_size)

\* C12: DEDSTA.evaluate fits with the reservoir's current contents: the
\* points and the weights handed to fit each have size() entries, the i-th
\* weight is that of the i-th point, and nothing of an earlier fit is kept.
C12_FitsCurrentContents ==
    last.op = "DEDSTA.evaluate"
        => /\ Len(fitted) = 1
           /\ Len(fitted[1].points) = Len(alg_data_points)
           /\ Len(fitted[1].weights) = Len(alg_data_points)
           /\ \A i \in 1..Len(alg_data_points) :
                 /\ fitted[1].points[i] = alg_data_points[i].value
                 /\ fitted[1].weights[i] = alg_data_points[i].weight

\* C12 witness: evaluate has fitted a full reservoir of three points whose
\* two oldest differ.
C12_Witness ==
    /\ last.op = "DEDSTA.evaluate" /\ ~last.raised
    /\ alg_max_size = 3 /\ Len(alg_data_points) = 3
    /\ alg_data_points[1].value # alg_data_points[2].value
    /\ Len(fitted[1].points) = 3

----------------------------------------------------------------------------
(* Further properties of the reservoir and its modules *)

RatLeq(a, b) == a.num * b.den <= b.num * a.den

\* C13: whatever calls were made (add, remove, reset_weights, Aging and
\* Reduction with v in [0, 1]; Reduction also with v outside), every weight
\* w satisfies 0 < w <= 2, and after AgingModule.apply the weights do not
\* increase from position 0 to the last position.
C13_WeightsPositive ==
    /\ \A i \in 1..size :
          /\ get_weights[i].den > 0
          /\ get_weights[i].num > 0
          /\ RatLeq(get_weights[i], Rat(2, 1))
    /\ last.op = "Aging.apply"
          => \A i \in 1..(size - 1) :
                RatLeq(get_weights[i + 1], get_weights[i])

\* C13 witness: aging with v = 1 on three samples, the oldest at 2/3.
C13_Witness ==
    /\ last.op = "Aging.apply" /\ last.nu = Rat(1, 1) /\ size = 3
    /\ get_weights[3] = Rat(2, 3)

\* C15: remove() on an empty reservoir raises and leaves it empty; so a
\* reservoir with max_size = 0 stays empty, every add on it raising.
C15_RemoveOnEmpty ==
    /\ last.op = "remove" /\ last.pre_size = 0
          => last.raised /\ ~last.changed /\ size = 0
    /\ max_size = 0
          => /\ size = 0
             /\ last.op = "add" => last.raised /\ ~last.changed

\* C15 witness: add was called on a reservoir with max_size = 0.
C15_Witness ==
    max_size = 0 /\ last.op = "add" /\ last.raised /\ size = 0

\* C16: ReductionModule.apply keeps the first m points with their weights,
\* m <= n the resulting size, and leaves min_size and max_size alone.
C16_ReductionFrame ==
    [][last'.op = "Reduction.apply"
        => /\ size' <= size
           /\ data_points' = SubSeq(data_points, 1, size')
           /\ min_size' = min_size
           /\ max_size' = max_size]_vars

\* C16 witness: a reduction took three aged samples down to two.
C16_Witness ==
    /\ last.op = "Reduction.apply" /\ last.changed
    /\ last.pre_size = 3 /\ size = 2
    /\ get_weights[1] # get_weights[2]
    /\ get_points[1] # get_points[2]

\* ReductionModule.apply(v) then AgingModule.apply(v), and the other order,
\* on the list dp of the reservoir.
ReduceThenAge(dp, nu) ==
    AgingApply(ReduceTo(dp, ReductionTarget(min_size, max_size, nu)).points, nu)
AgeThenReduce(dp, nu) ==
    ReduceTo(AgingApply(dp, nu), ReductionTarget(min_size, max_size, nu)).points

Values(dp) == [i \in 1..Len(dp) |-> dp[i].value]

\* C17 as stated: for every v in [0, 1] the two orders leave the same
\* points with the same weights.
C17_OrderIrrelevant ==
    \A nu \in NuValues :
        ReduceThenAge(data_points, nu) = AgeThenReduce(data_points, nu)

\* C17 amended: for every v in [0, 1] the two orders leave the same points;
\* they leave the same weights when v = 0, or the reduction removes
\* nothing, or at most one sample is left.
C17_OrderMattersForWeights ==
    \A nu \in NuValues :
        LET m == Min(size, ReductionTarget(min_size, max_size, nu)) IN
        /\ Values(ReduceThenAge(data_points, nu)) = SubSeq(get_points, 1, m)
        /\ Values(AgeThenReduce(data_points, nu)) = SubSeq(get_points, 1, m)
        /\ (nu.num = 0 \/ m = size \/ m <= 1)
              => ReduceThenAge(data_points, nu) = AgeThenReduce(data_points, nu)

\* C17 witness: three samples, max_size = 3, min_size = 0, v = 1/2: both
\* orders leave the newest sample alone, with weight 2.
C17_Witness ==
    /\ size = 3 /\ max_size = 3 /\ min_size = 0 /\ last.op = "add"
    /\ ReduceThenAge(data_points, Rat(1, 2))
          = <<[value |-> get_points[1], weight |-> Rat(2, 1)]>>
    /\ AgeThenReduce(data_points, Rat(1, 2))
          = <<[value |-> get_points[1], weight |-> Rat(2, 1)]>>

----------------------------------------------------------------------------
(* Further properties of the estimator *)

\* C14: evaluate() on a window that has received no observation raises
\* instead of returning a degree, and evaluate() leaves the window as it
\* is.
C14_EvaluateOnEmptyFails ==
    /\ [](last.op = "KPSS.evaluate" /\ fed = Tracked(<<>>)
            => last.raised /\ data = <<>>)
    /\ [][last'.op = "KPSS.evaluate"
            => data' = data /\ ndim' = ndim /\ window_size' = window_size]_vars

\* C14 witness: evaluate() was called before any update.
C14_Witness ==
    last.op = "KPSS.evaluate" /\ fed = Tracked(<<>>) /\ last.raised

----------------------------------------------------------------------------
(* The two sliding-window reservoirs side by side *)

\* C18: given the same adds and the same max_size >= 1, the reservoir of
\* algorithm.py and the one of structure.py hold the same samples, the last
\* min(k, max_size) added, and evict the same sample on overflow, in
\* opposite orders: algorithm.py's get_points() is oldest first, the
\* reverse of structure.py's.
C18_SameSamplesReversed ==
    /\ [](max_size >= 1
            => /\ alg_data_points = Reverse(data_points)
               /\ alg_get_points = Reverse(get_points)
               /\ added.tracked
                     => alg_get_points =
                          LastN(added.values,
                                Min(Len(added.values), max_size)))
    /\ [][last'.op = "add" /\ max_size >= 1 /\ size = max_size
            => /\ data_points[size] = alg_data_points[1]
               /\ SubSeq(data_points', 2, size') = PopLast(data_points)
               /\ SubSeq(alg_data_points', 1, Len(alg_data_points') - 1)
                     = Tail(alg_data_points)]_vars

\* C18 witness: max_size = 2 and three values added, the first two
\* different: both reservoirs have dropped the first.
C18_Witness ==
    /\ max_size = 2 /\ alg_max_size = 2
    /\ added.tracked /\ Len(added.values) = 3
    /\ added.values[1] # added.values[2]
    /\ alg_get_points = SubSeq(added.values, 2, 3)
    /\ get_points = Reverse(SubSeq(added.values, 2, 3))

====
